---- MODULE Spec2Model ----
(***************************************************************************)
(* Model of the searchbox parser (src/src/index.ts): parse() builds a      *)
(* Parser and a Lexer, the Lexer drives a two-state moo lexer over the     *)
(* input and hands every OP/KEY/VALUE/FULLTEXT token to Parser.parse,      *)
(* which folds them into a Formula.                                        *)
(*                                                                         *)
(* The lexer is the moo library's: the rules of a state are compiled into   *)
(* one sticky alternation in the order they are written, so at the scan    *)
(* offset the first rule whose pattern matches there wins (not the longest *)
(* match); lookbehinds see the text before the offset; next() returns      *)
(* undefined at the end of the buffer in any state and throws "invalid     *)
(* syntax" where no rule of the state matches.                             *)
(*                                                                         *)
(* Text is a sequence of one-character strings.  An optional value (the    *)
(* `op?: string` of a Literal, lastOp, lastKey) is a set with at most one  *)
(* element: {} is undefined, {t} is the text t.                            *)
(***************************************************************************)
EXTENDS Integers, Sequences, FiniteSets, TLC

VARIABLES keywords, input, pc, index, state, stack, lastOp, lastKey, literals,
          tokens, result, matches, returned

vars == <<keywords, input, pc, index, state, stack, lastOp, lastKey, literals,
          tokens, result, matches, returned>>

\* ------------------------------------------------------------------------
\* Token types.
TOKEN_OP == "OP"
TOKEN_KEY == "KEY"
TOKEN_VALUE == "VALUE"
TOKEN_FULLTEXT == "FULLTEXT"

Undefined == {}
Some(x) == {x}

\* ------------------------------------------------------------------------
\* Character classes of the grammar.

\* Line terminators: what `.` does not match.
LineTerminators == {"\n", "\r"}

\* The class of WORD's lookbehind: [ \f\n\r\t\v.,'"+\-!?:]
\* (the vertical tab has no TLA+ string escape and is left out of both classes).
LookbehindSeps ==
  {" ", "\f", "\n", "\r", "\t", ".", ",", "'", "\"", "+", "-", "!", "?", ":"}

\* The class of WORD's lookahead: the same characters and ';'.
LookaheadSeps == LookbehindSeps \cup {";"}

\* \w : [A-Za-z0-9_]
WordChars ==
  {"a", "b", "c", "d", "e", "f", "g", "h", "i", "j", "k", "l", "m", "n", "o",
   "p", "q", "r", "s", "t", "u", "v", "w", "x", "y", "z",
   "A", "B", "C", "D", "E", "F", "G", "H", "I", "J", "K", "L", "M", "N", "O",
   "P", "Q", "R", "S", "T", "U", "V", "W", "X", "Y", "Z",
   "0", "1", "2", "3", "4", "5", "6", "7", "8", "9", "_"}

\* ------------------------------------------------------------------------
\* The patterns.  Each operator gives the length of the pattern's match
\* starting at offset i (0-based, as moo's index) of buf, 0 when it does not
\* match there: no pattern of the grammar matches the empty string.

\* buf has the text w at offset i.
StartsWith(buf, i, w) ==
  /\ i + Len(w) <= Len(buf)
  /\ \A j \in 1..Len(w) : buf[i + j] = w[j]

\* buf.slice(from, from + n)
Slice(buf, from, n) == SubSeq(buf, from + 1, from + n)

\* WS = /[ \t]+/u : greedy run of spaces and tabs.
RECURSIVE WS(_, _)
WS(buf, i) ==
  IF i < Len(buf) /\ buf[i + 1] \in {" ", "\t"} THEN 1 + WS(buf, i + 1) ELSE 0

\* The alternation kw[n]|kw[n+1]|... : the first alternative that matches wins.
RECURSIVE Alternation(_, _, _, _)
Alternation(kw, buf, i, n) ==
  IF n > Len(kw) THEN 0
  ELSE IF Len(kw[n]) > 0 /\ StartsWith(buf, i, kw[n]) THEN Len(kw[n])
  ELSE Alternation(kw, buf, i, n + 1)

\* KEY = new RegExp(keywords.join('|'), 'u')
KEY(kw, buf, i) == Alternation(kw, buf, i, 1)

\* OP without its lookahead: any hyphen is an operator.
OP_NoLookahead(kw, buf, i) ==
  IF i < Len(buf) /\ buf[i + 1] = "-" THEN 1 ELSE 0

\* OP = new RegExp(`-(?=(?:${keywords.join('|')}))`, 'u')
OP(kw, buf, i) ==
  IF i < Len(buf) /\ buf[i + 1] = "-" /\ KEY(kw, buf, i + 1) > 0 THEN 1 ELSE 0

\* SEP = /:/u
SEP(buf, i) == IF i < Len(buf) /\ buf[i + 1] = ":" THEN 1 ELSE 0

\* WORDS_SQ = /'.*?'/u and WORDS_DQ = /".*?"/u for the quote q: the opening
\* quote, as few characters other than line terminators as possible, the
\* closing quote.
WORDS(q, buf, i) ==
  IF i < Len(buf) /\ buf[i + 1] = q
  THEN LET closing == {j \in (i + 2)..Len(buf) :
                         /\ buf[j] = q
                         /\ \A m \in (i + 2)..(j - 1) :
                              buf[m] \notin LineTerminators}
       IN IF closing = {} THEN 0
          ELSE (CHOOSE j \in closing : \A m \in closing : j <= m) - i
  ELSE 0

WORDS_SQ(buf, i) == WORDS("'", buf, i)
WORDS_DQ(buf, i) == WORDS("\"", buf, i)

\* WordBehind without the lookbehind: a word may start anywhere.
WordBehind_Anywhere(buf, i) == i >= 0

\* The lookbehind of WORD, (?<=^|[seps]+): the offset is the start of a line
\* (moo compiles the rules with the m flag) or follows a separator.
WordBehind(buf, i) ==
  \/ i = 0
  \/ buf[i] \in LineTerminators
  \/ buf[i] \in LookbehindSeps

\* The lookahead of WORD, (?=$|[seps;]+), at offset e: the end of a line or
\* a separator or ';' follows.
WordAhead(buf, e) ==
  \/ e = Len(buf)
  \/ buf[e + 1] \in LineTerminators
  \/ buf[e + 1] \in LookaheadSeps

\* The lazy .+? of WORD with n characters taken so far, none of them a line
\* terminator: it stops at the first offset where the lookahead holds.
RECURSIVE Lazy(_, _, _)
Lazy(buf, i, n) ==
  IF WordAhead(buf, i + n) THEN n
  ELSE IF buf[i + n + 1] \in LineTerminators THEN 0
  ELSE Lazy(buf, i, n + 1)

\* WORD whose first character may not be a separator either.
WORD_NoLeadingSeparator(buf, i) ==
  IF i < Len(buf) /\ WordBehind(buf, i) /\ buf[i + 1] \notin LineTerminators
     /\ buf[i + 1] \notin LookaheadSeps
  THEN Lazy(buf, i, 1)
  ELSE 0

\* WORD = (?<=^|[seps]+)(?:.+?)(?=$|[seps;]+) : after the lookbehind, the
\* fewest characters (at least one, none a line terminator, the first one of
\* any other kind) after which the lookahead holds.
WORD(buf, i) ==
  IF i < Len(buf) /\ WordBehind(buf, i) /\ buf[i + 1] \notin LineTerminators
  THEN Lazy(buf, i, 1)
  ELSE 0

\* NON_WORD = /\W+?/u : lazy, so exactly one non-word character.
NON_WORD(buf, i) ==
  IF i < Len(buf) /\ buf[i + 1] \notin WordChars THEN 1 ELSE 0

\* ------------------------------------------------------------------------
\* The stateful grammar: MooLexer.states({init: ..., pair: ...}).  The rules
\* of a state in the order moo tries them; each rule is
\* name, token type, whether the value is x.slice(1, -1), push, pop.
Rule(name, type, strip, push, pop) ==
  [name |-> name, type |-> type, strip |-> strip, push |-> push, pop |-> pop]

\* init whose single-quoted phrase keeps its delimiters.
init_QuotesKept ==
  << Rule("WS", "WS", FALSE, "", FALSE),
     Rule("OP", TOKEN_OP, FALSE, "", FALSE),
     Rule("KEY", TOKEN_KEY, FALSE, "pair", FALSE),
     Rule("WORDS_SQ", TOKEN_FULLTEXT, FALSE, "", FALSE),
     Rule("WORDS_DQ", TOKEN_FULLTEXT, TRUE, "", FALSE),
     Rule("WORD", TOKEN_FULLTEXT, FALSE, "", FALSE),
     Rule("NON_WORD", "NON_WORD", FALSE, "", FALSE) >>

init ==
  << Rule("WS", "WS", FALSE, "", FALSE),
     Rule("OP", TOKEN_OP, FALSE, "", FALSE),
     Rule("KEY", TOKEN_KEY, FALSE, "pair", FALSE),
     Rule("WORDS_SQ", TOKEN_FULLTEXT, TRUE, "", FALSE),
     Rule("WORDS_DQ", TOKEN_FULLTEXT, TRUE, "", FALSE),
     Rule("WORD", TOKEN_FULLTEXT, FALSE, "", FALSE),
     Rule("NON_WORD", "NON_WORD", FALSE, "", FALSE) >>

\* pair whose bare-word Value does not pop the state.
pair_NoPop ==
  << Rule("SEP", "SEP", FALSE, "", FALSE),
     Rule("WORDS_SQ", TOKEN_VALUE, TRUE, "", TRUE),
     Rule("WORDS_DQ", TOKEN_VALUE, TRUE, "", TRUE),
     Rule("WORD", TOKEN_VALUE, FALSE, "", FALSE) >>

pair ==
  << Rule("SEP", "SEP", FALSE, "", FALSE),
     Rule("WORDS_SQ", TOKEN_VALUE, TRUE, "", TRUE),
     Rule("WORDS_DQ", TOKEN_VALUE, TRUE, "", TRUE),
     Rule("WORD", TOKEN_VALUE, FALSE, "", TRUE) >>

States(s) == IF s = "init" THEN init ELSE pair

\* The match of one rule's pattern at offset i.
Match(name, kw, buf, i) ==
  CASE name = "WS" -> WS(buf, i)
    [] name = "OP" -> OP(kw, buf, i)
    [] name = "KEY" -> KEY(kw, buf, i)
    [] name = "SEP" -> SEP(buf, i)
    [] name = "WORDS_SQ" -> WORDS_SQ(buf, i)
    [] name = "WORDS_DQ" -> WORDS_DQ(buf, i)
    [] name = "WORD" -> WORD(buf, i)
    [] name = "NON_WORD" -> NON_WORD(buf, i)

\* The rules of a state are one sticky alternation: the first rule, from
\* rule n on, whose pattern matches at offset i wins; 0 when none does.
RECURSIVE FirstMatch(_, _, _, _, _)
FirstMatch(rules, kw, buf, i, n) ==
  IF n > Len(rules) THEN 0
  ELSE IF Match(rules[n].name, kw, buf, i) > 0 THEN n
  ELSE FirstMatch(rules, kw, buf, i, n + 1)

Winner(s, kw, buf, i) == FirstMatch(States(s), kw, buf, i, 1)

\* ------------------------------------------------------------------------
\* append that never finds a Literal without operator: undefined compared
\* as unequal to undefined.
append_AbsentNeverFound(lits, key, value, op) ==
  LET found == {n \in 1..Len(lits) :
                  lits[n].key = key /\ lits[n].op = op /\ op # Undefined}
  IN IF found = {}
     THEN Append(lits, [key |-> key, op |-> op, values |-> <<value>>])
     ELSE LET n == CHOOSE n \in found : \A m \in found : n <= m
          IN [lits EXCEPT ![n].values = Append(@, value)]

\* append that puts a new Literal first (unshift for push).
append_Unshift(lits, key, value, op) ==
  LET found == {n \in 1..Len(lits) : lits[n].key = key /\ lits[n].op = op}
  IN IF found = {}
     THEN <<[key |-> key, op |-> op, values |-> <<value>>]>> \o lits
     ELSE LET n == CHOOSE n \in found : \A m \in found : n <= m
          IN [lits EXCEPT ![n].values = Append(@, value)]

\* Formula.append
append(lits, key, value, op) ==
  LET found == {n \in 1..Len(lits) : lits[n].key = key /\ lits[n].op = op}
  IN IF found = {}
     THEN Append(lits, [key |-> key, op |-> op, values |-> <<value>>])
     ELSE LET n == CHOOSE n \in found : \A m \in found : n <= m
          IN [lits EXCEPT ![n].values = Append(@, value)]

Fulltext == <<"f", "u", "l", "l", "t", "e", "x", "t">>

\* Parser.parse that records a Fulltext token as negated.
ParserParse_FulltextNegated(token, p) ==
  CASE token.type = TOKEN_OP ->
         [p EXCEPT !.lastOp = Some(token.value)]
    [] token.type = TOKEN_KEY ->
         [p EXCEPT !.lastKey = Some(token.value)]
    [] token.type = TOKEN_VALUE ->
         [query |-> append(p.query, p.lastKey, token.value, p.lastOp),
          lastOp |-> Undefined,
          lastKey |-> Undefined]
    [] token.type = TOKEN_FULLTEXT ->
         [p EXCEPT !.query = append(p.query, Some(Fulltext), token.value,
                                    Some(<<"-">>))]

\* Parser.parse that stores the Key token in the operator slot.
ParserParse_KeyIntoOp(token, p) ==
  CASE token.type = TOKEN_OP ->
         [p EXCEPT !.lastOp = Some(token.value)]
    [] token.type = TOKEN_KEY ->
         [p EXCEPT !.lastOp = Some(token.value)]
    [] token.type = TOKEN_VALUE ->
         [query |-> append(p.query, p.lastKey, token.value, p.lastOp),
          lastOp |-> Undefined,
          lastKey |-> Undefined]
    [] token.type = TOKEN_FULLTEXT ->
         [p EXCEPT !.query = append(p.query, Some(Fulltext), token.value, Undefined)]

\* Parser.parse: the parser's fields after the token.
ParserParse(token, p) ==
  CASE token.type = TOKEN_OP ->
         [p EXCEPT !.lastOp = Some(token.value)]
    [] token.type = TOKEN_KEY ->
         [p EXCEPT !.lastKey = Some(token.value)]
    [] token.type = TOKEN_VALUE ->
         [query |-> append(p.query, p.lastKey, token.value, p.lastOp),
          lastOp |-> Undefined,
          lastKey |-> Undefined]
    [] token.type = TOKEN_FULLTEXT ->
         [p EXCEPT !.query = append(p.query, Some(Fulltext), token.value, Undefined)]

\* ------------------------------------------------------------------------
\* The calls the model makes.

\* Most atoms an input is built of.
MaxAtoms == 4

\* The pieces inputs are built of: word characters, the operator, the
\* separator, a blank, a quote and punctuation outside the separator class.
CoreAtoms ==
  { <<"a">>, <<"k">>, <<"-">>, <<":">>, <<" ">>, <<"'">>, <<";">> }

\* The same and the other quote, a line break and the reserved key name.
Atoms == CoreAtoms \cup { <<"\"">>, <<"\n">>, Fulltext }

RECURSIVE Flatten(_)
Flatten(ss) == IF ss = <<>> THEN <<>> ELSE Head(ss) \o Flatten(Tail(ss))

\* The texts of at most max atoms of the set atoms.
Texts(atoms, max) ==
  {Flatten(ss) : ss \in UNION {[1..n -> atoms] : n \in 0..max}}

Inputs == Texts(CoreAtoms, MaxAtoms) \cup Texts(Atoms, MaxAtoms - 1)

\* opts.keywords of the calls: none, one key, a key and a longer key that
\* begins with it.
KeywordLists == { <<>>, << <<"k">> >>, << <<"k">>, <<"k", "a">> >> }

status == <<"s", "t", "a", "t", "u", "s">>
open == <<"o", "p", "e", "n">>
urgent == <<"u", "r", "g", "e", "n", "t">>
hello == <<"h", "e", "l", "l", "o">>
world == <<"w", "o", "r", "l", "d">>

\* Calls longer than MaxAtoms atoms: the inputs the documentation names.
Examples ==
  { [keywords |-> << status >>, input |-> <<"-">> \o status \o <<":">> \o open \o <<" ">> \o urgent],
    [keywords |-> << status >>, input |-> status \o <<":">> \o open],
    [keywords |-> << status >>, input |-> status \o <<":", " ">> \o open],
    [keywords |-> << status >>, input |-> status \o <<":", "\t">> \o open],
    [keywords |-> << status >>, input |-> status \o <<" ">> \o open],
    [keywords |-> << status >>, input |-> <<"'">> \o hello \o <<" ">> \o world \o <<"'">>],
    [keywords |-> <<>>, input |-> <<"a", " ", "k", " ", "a">>],
    [keywords |-> << <<"k">> >>, input |-> <<"k", ":", "a", " ", "k", ":", "a">>],
    [keywords |-> << <<"k">> >>,
     input |-> <<"-", "k", ":", "a", " ", "k", ":", "a", " ", "k", ":", "k", " ", "-", "k", ":", "k">>],
    [keywords |-> << <<"k">> >>,
     input |-> <<"'", "a", " ", ";", "'", " ", "k", ":", "\"", "a", " ", ";", "\"">>],
    [keywords |-> << <<"k">> >>, input |-> <<"-", "k", ":", "a", " ", "k", ":", "k">>],
    [keywords |-> << <<"k">> >>, input |-> <<"a", " ">> \o Fulltext \o <<":", "k">>],
    [keywords |-> << Fulltext, <<"k">> >>, input |-> Fulltext \o <<":", "a">>],
    [keywords |-> << <<"k">> >>,
     input |-> <<"-">> \o Fulltext \o <<":", "a", " ", "a">>],
    [keywords |-> << <<"f", "u", "l", "l">> >>, input |-> Fulltext \o <<":", "a">>] }

Calls ==
  {[keywords |-> kw, input |-> in] : kw \in KeywordLists, in \in Inputs}
    \cup Examples

\* ------------------------------------------------------------------------
\* State.  pc is the position of the call of parse(): "start" before it,
\* "lex" inside lexer.lex(input), "done" once it has returned parser.getFormula()
\* (result holds the returned literals), "error" once the lexer has thrown.
\* tokens is the history of the tokens handed to the handler, each with the
\* text moo matched for it; matches is the history of the texts of all
\* matches of lexer.next(), emitted or not; returned holds what the earlier
\* calls of the same caller have returned or thrown.

Init ==
  /\ \E c \in Calls : keywords = c.keywords /\ input = c.input
  /\ pc = "start"
  /\ index = 0
  /\ state = "init"
  /\ stack = <<>>
  /\ lastOp = Undefined
  /\ lastKey = Undefined
  /\ literals = <<>>
  /\ tokens = <<>>
  /\ result = Undefined
  /\ matches = <<>>
  /\ returned = <<>>

\* parse() with one Parser for all calls: its formula and pending slots are
\* those the call before left.
parse_SharedParser ==
  /\ pc = "start"
  /\ keywords' = IF \E n \in 1..Len(keywords) : keywords[n] = Fulltext
                 THEN keywords ELSE Append(keywords, Fulltext)
  /\ pc' = "lex"
  /\ index' = 0
  /\ state' = "init"
  /\ stack' = <<>>
  /\ tokens' = <<>>
  /\ matches' = <<>>
  /\ UNCHANGED <<input, result, returned, lastOp, lastKey, literals>>

\* parse(), lines 17-22 up to the first lexer.next(): new Parser(), new
\* Lexer(keywords, ...), which pushes 'fulltext' on the caller's list when it
\* is not in it, and lexer.reset(input).
parse ==
  /\ pc = "start"
  /\ keywords' = IF \E n \in 1..Len(keywords) : keywords[n] = Fulltext
                 THEN keywords ELSE Append(keywords, Fulltext)
  /\ pc' = "lex"
  /\ index' = 0
  /\ state' = "init"
  /\ stack' = <<>>
  /\ lastOp' = Undefined
  /\ lastKey' = Undefined
  /\ literals' = <<>>
  /\ tokens' = <<>>
  /\ matches' = <<>>
  /\ UNCHANGED <<input, result, returned>>

Emitted == {TOKEN_OP, TOKEN_KEY, TOKEN_VALUE, TOKEN_FULLTEXT}

\* One lexer.next() in state s that matches rule n of s, and the body of the
\* loop of Lexer.lex for the token: emitToken, hence Parser.parse, for the
\* four token types; nothing for WS, SEP and NON_WORD.
Next_(s, n) ==
  /\ pc = "lex"
  /\ index < Len(input)
  /\ state = s
  /\ Winner(s, keywords, input, index) = n
  /\ LET rule == States(s)[n]
         len == Match(rule.name, keywords, input, index)
         text == Slice(input, index, len)
         token == [type |-> rule.type,
                   value |-> IF rule.strip THEN SubSeq(text, 2, Len(text) - 1)
                             ELSE text,
                   text |-> text]
         p == IF rule.type \in Emitted
              THEN ParserParse(token, [query |-> literals, lastOp |-> lastOp,
                                       lastKey |-> lastKey])
              ELSE [query |-> literals, lastOp |-> lastOp, lastKey |-> lastKey]
     IN /\ index' = index + len
        /\ IF rule.pop
           THEN state' = stack[Len(stack)] /\ stack' = SubSeq(stack, 1, Len(stack) - 1)
           ELSE IF rule.push # ""
                THEN state' = rule.push /\ stack' = Append(stack, state)
                ELSE UNCHANGED <<state, stack>>
        /\ tokens' = IF rule.type \in Emitted THEN Append(tokens, token) ELSE tokens
        /\ literals' = p.query
        /\ lastOp' = p.lastOp
        /\ lastKey' = p.lastKey
        /\ matches' = Append(matches, text)
  /\ UNCHANGED <<keywords, input, pc, result, returned>>

InitWS == Next_("init", 1)
InitOP == Next_("init", 2)
InitKEY == Next_("init", 3)
InitFulltextSQ == Next_("init", 4)
InitFulltextDQ == Next_("init", 5)
InitFulltextWORD == Next_("init", 6)
InitNON_WORD == Next_("init", 7)
PairSEP == Next_("pair", 1)
PairValueSQ == Next_("pair", 2)
PairValueDQ == Next_("pair", 3)
PairValueWORD == Next_("pair", 4)

\* lexer.next() where no rule of the state matches: moo's default error rule
\* throws "invalid syntax", Lexer.lex and parse() do not catch it.
Throw ==
  /\ pc = "lex"
  /\ index < Len(input)
  /\ Winner(state, keywords, input, index) = 0
  /\ pc' = "error"
  /\ UNCHANGED <<keywords, input, index, state, stack, lastOp, lastKey,
                 literals, tokens, result, matches, returned>>

\* An end of the buffer that is an error while a key is pending.
Return_PairFails ==
  /\ pc = "lex"
  /\ index = Len(input)
  /\ IF state = "pair"
     THEN pc' = "error" /\ UNCHANGED result
     ELSE pc' = "done" /\ result' = Some(literals)
  /\ UNCHANGED <<keywords, input, index, state, stack, lastOp, lastKey,
                 literals, tokens, matches, returned>>

\* A loop that ends one character before the end of the buffer.
Return_Early ==
  /\ pc = "lex"
  /\ index + 1 >= Len(input)
  /\ pc' = "done"
  /\ result' = Some(literals)
  /\ UNCHANGED <<keywords, input, index, state, stack, lastOp, lastKey,
                 literals, tokens, matches, returned>>

\* lexer.next() at the end of the buffer gives undefined in either state:
\* the loop of Lexer.lex ends and parse() returns parser.getFormula().
Return ==
  /\ pc = "lex"
  /\ index = Len(input)
  /\ pc' = "done"
  /\ result' = Some(literals)
  /\ UNCHANGED <<keywords, input, index, state, stack, lastOp, lastKey,
                 literals, tokens, matches, returned>>

Next ==
  \/ parse
  \/ InitWS
  \/ InitOP
  \/ InitKEY
  \/ InitFulltextSQ
  \/ InitFulltextDQ
  \/ InitFulltextWORD
  \/ InitNON_WORD
  \/ PairSEP
  \/ PairValueSQ
  \/ PairValueDQ
  \/ PairValueWORD
  \/ Throw
  \/ Return

Spec == Init /\ [][Next]_vars

\* parse() is synchronous: once called, the for...of loop of Lexer.lex runs
\* without interruption until lexer.next() gives undefined or throws.
FairSpec == Spec /\ WF_vars(Next)

\* ------------------------------------------------------------------------
\* Several calls of parse() by one caller, one after the other (the code is
\* synchronous: a call runs to its end before the next starts), all with the
\* same opts object, so with the keywords array the calls before have left.

\* Most calls of one caller.
MaxCalls == 2

KeywordLists12 == KeywordLists \cup { << Fulltext, <<"k">> >> }

Inputs12 ==
  { <<>>,
    <<"a", " ", "k", ":", "a">>,
    <<"-", "k", ":", "'", "a", "'">>,
    Fulltext \o <<":", "\"", "a", "\"">>,
    <<"'", "a", "'", ";", "\"", "k", "\"">>,
    <<"k", " ">>,
    <<"-", "k">> }

Init12 ==
  /\ keywords \in KeywordLists12
  /\ input \in Inputs12
  /\ pc = "start"
  /\ index = 0
  /\ state = "init"
  /\ stack = <<>>
  /\ lastOp = Undefined
  /\ lastKey = Undefined
  /\ literals = <<>>
  /\ tokens = <<>>
  /\ result = Undefined
  /\ matches = <<>>
  /\ returned = <<>>

\* The caller keeps what the call has returned (or notes that it has thrown)
\* and calls parse() again with another input and the same opts.  The Parser
\* and Lexer of the call that ended are left as they are: nothing refers to
\* them any more.
NextCall ==
  /\ pc \in {"done", "error"}
  /\ Len(returned) + 1 < MaxCalls
  /\ returned' = Append(returned, [input |-> input, pc |-> pc, result |-> result])
  /\ \E in \in Inputs12 : input' = in
  /\ pc' = "start"
  /\ result' = Undefined
  /\ UNCHANGED <<keywords, index, state, stack, lastOp, lastKey, literals,
                 tokens, matches>>

Next12 ==
  \/ Next
  \/ NextCall

Spec12 == Init12 /\ [][Next12]_vars

\* One whole call by itself, as a function of its arguments: the loop of
\* Lexer.lex from offset i in state s with stack stk and parser fields p.
RECURSIVE Lex(_, _, _, _, _, _)
Lex(kw, buf, i, s, stk, p) ==
  IF i = Len(buf) THEN [pc |-> "done", result |-> Some(p.query)]
  ELSE LET n == Winner(s, kw, buf, i)
       IN IF n = 0 THEN [pc |-> "error", result |-> Undefined]
          ELSE LET rule == States(s)[n]
                   len == Match(rule.name, kw, buf, i)
                   text == Slice(buf, i, len)
                   token == [type |-> rule.type,
                             value |-> IF rule.strip
                                       THEN SubSeq(text, 2, Len(text) - 1)
                                       ELSE text,
                             text |-> text]
               IN Lex(kw, buf, i + len,
                      IF rule.pop THEN stk[Len(stk)]
                      ELSE IF rule.push # "" THEN rule.push ELSE s,
                      IF rule.pop THEN SubSeq(stk, 1, Len(stk) - 1)
                      ELSE IF rule.push # "" THEN Append(stk, s) ELSE stk,
                      IF rule.type \in Emitted THEN ParserParse(token, p) ELSE p)

\* parse(input, {keywords: kw}) with a list kw no call has seen before.
Alone(kw, buf) ==
  Lex(IF \E n \in 1..Len(kw) : kw[n] = Fulltext THEN kw ELSE Append(kw, Fulltext),
      buf, 0, "init", <<>>,
      [query |-> <<>>, lastOp |-> Undefined, lastKey |-> Undefined])

TypeOK ==
  /\ pc \in {"start", "lex", "done", "error"}
  /\ index \in 0..Len(input)
  /\ state \in {"init", "pair"}

\* ------------------------------------------------------------------------
\* Vocabulary of the properties.

Quotes == {"'", "\""}

\* The separator characters as the documentation lists them.
Separators ==
  {" ", "\t", "\n", "\f", ".", ",", "'", "\"", "+", "-", "!", "?", ":"}

\* The keys the caller configured.
Configured == {keywords[n] : n \in 1..Len(keywords)}

\* The recognized key names: the configured ones and 'fulltext'.
Recognized == Configured \cup {Fulltext}

\* The text of buf from offset i to its end.
Rest(buf, i) == SubSeq(buf, i + 1, Len(buf))

\* A non-empty word without a separator character.
IsBareWord(w) == w # <<>> /\ \A n \in 1..Len(w) : w[n] \notin Separators

Literal(key, op, values) == [key |-> Some(key), op |-> op, values |-> values]

Returns(lits) == pc = "done" /\ result = Some(lits)

\* The call neither fails nor returns anything but lits.
Yields(lits) == pc # "error" /\ (pc = "done" => result = Some(lits))

LastToken == tokens[Len(tokens)]

\* The first token emitted is the Key k.
FirstTokenIsKey(k) ==
  tokens # <<>> /\ tokens[1].type = TOKEN_KEY /\ tokens[1].value = k

\* Token n came from the bare-word rule: quotes were not stripped from it.
IsBareWordToken(n) ==
  tokens[n].type \in {TOKEN_VALUE, TOKEN_FULLTEXT} /\ tokens[n].value = tokens[n].text

\* The number of values of all literals of lits.
RECURSIVE Values(_)
Values(lits) ==
  IF lits = <<>> THEN 0 ELSE Len(Head(lits).values) + Values(Tail(lits))

\* ------------------------------------------------------------------------
\* C1 - Grouping invariant: whatever tokens the builder has consumed, no two
\* Literals of the formula (and of the returned result) have the same key and
\* the same operator; (key, no operator) and (key, '-') are different pairs.
C1_Grouping ==
  \A m, n \in 1..Len(literals) :
    (literals[m].key = literals[n].key /\ literals[m].op = literals[n].op)
      => m = n

\* Both groups of one key exist, each with a second value appended to it.
C1_Witness ==
  /\ pc = "done"
  /\ result = Some(<< Literal(<<"k">>, Some(<<"-">>), << <<"a">>, <<"k">> >>),
                      Literal(<<"k">>, Undefined, << <<"a">>, <<"k">> >>) >>)

\* C2 - Ordering: a step never removes or reorders a Literal or a value: the
\* Literals so far keep their place, key, operator and values as a prefix; a
\* Value or Fulltext token adds exactly one value, the token's text, as the
\* last value of its Literal, and a Literal that is new is the last one; no
\* other step changes the formula.  So Literals are in first-seen order and
\* values in input order, duplicates kept.
C2_StepKeepsOrder ==
  /\ Len(literals') >= Len(literals)
  /\ \A n \in 1..Len(literals) :
       /\ literals'[n].key = literals[n].key
       /\ literals'[n].op = literals[n].op
       /\ Len(literals'[n].values) >= Len(literals[n].values)
       /\ SubSeq(literals'[n].values, 1, Len(literals[n].values))
            = literals[n].values
  /\ IF tokens' # tokens
        /\ tokens'[Len(tokens')].type \in {TOKEN_VALUE, TOKEN_FULLTEXT}
     THEN /\ Values(literals') = Values(literals) + 1
          /\ Len(literals') <= Len(literals) + 1
          /\ \E n \in 1..Len(literals') :
               LET vs == literals'[n].values
               IN /\ vs[Len(vs)] = tokens'[Len(tokens')].value
                  /\ \/ n = Len(literals') /\ Len(literals') = Len(literals) + 1
                     \/ /\ n <= Len(literals)
                        /\ Len(literals') = Len(literals)
                        /\ Len(vs) = Len(literals[n].values) + 1
     ELSE literals' = literals

C2_Ordering == [][pc = "lex" => C2_StepKeepsOrder]_vars

\* 'a k a' without keys: one fulltext Literal with the values a, k, a.
C2_Witness ==
  /\ input = <<"a", " ", "k", " ", "a">>
  /\ Returns(<< Literal(Fulltext, Undefined, << <<"a">>, <<"k">>, <<"a">> >>) >>)

\* C3 - Key/value pairing: for every configured key k and bare word w, k:w
\* returns exactly {k, no operator, [w]} and -k:w exactly {k, '-', [w]}.
C3_KeyValuePairing ==
  \A k \in Configured :
    /\ (StartsWith(input, 0, k \o <<":">>) /\ IsBareWord(Rest(input, Len(k) + 1)))
         => Yields(<< Literal(k, Undefined, << Rest(input, Len(k) + 1) >>) >>)
    /\ (StartsWith(input, 0, <<"-">> \o k \o <<":">>)
          /\ IsBareWord(Rest(input, Len(k) + 2)))
         => Yields(<< Literal(k, Some(<<"-">>), << Rest(input, Len(k) + 2) >>) >>)

\* C4 - Return to Scanning after a Value: the tokenizer is in Pairing state
\* exactly when the last token emitted is a Key, so it is back in Scanning
\* state once a Value has been matched; '-status:open urgent' gives
\* {status, '-', [open]} then {fulltext, no operator, [urgent]}.
C4_MixedInput == <<"-">> \o status \o <<":">> \o open \o <<" ">> \o urgent

C4_ReturnToScanning ==
  /\ state = "pair" <=> (tokens # <<>> /\ LastToken.type = TOKEN_KEY)
  /\ (tokens # <<>> /\ LastToken.type = TOKEN_VALUE) => state = "init"
  /\ (input = C4_MixedInput /\ keywords[1] = status)
       => Yields(<< Literal(status, Some(<<"-">>), << open >>),
                    Literal(Fulltext, Undefined, << urgent >>) >>)

C4_Witness ==
  /\ input = C4_MixedInput
  /\ state = "init"
  /\ Returns(<< Literal(status, Some(<<"-">>), << open >>),
                Literal(Fulltext, Undefined, << urgent >>) >>)

\* C5 - Operator adjacency: for a bare word w that does not begin with a
\* recognized key, -w emits no Operator and no Key token and returns exactly
\* {fulltext, no operator, [w]}: the hyphen is not part of the value.
C5_OperatorAdjacency ==
  (/\ StartsWith(input, 0, <<"-">>)
   /\ IsBareWord(Rest(input, 1))
   /\ \A k \in Recognized : ~StartsWith(input, 1, k))
    => /\ \A n \in 1..Len(tokens) : tokens[n].type \notin {TOKEN_OP, TOKEN_KEY}
       /\ Yields(<< Literal(Fulltext, Undefined, << Rest(input, 1) >>) >>)

\* ------------------------------------------------------------------------
\* Quoted phrases as the properties speak of them.

Phrase(q, c) == <<q>> \o c \o <<q>>

\* c can be the content of a phrase in quotes q: no such quote, no line break.
IsContent(q, c) == \A n \in 1..Len(c) : c[n] # q /\ c[n] \notin {"\n", "\r"}

\* The contents c of the complete phrases in quotes q that start at offset i.
PhrasesAt(q, buf, i) ==
  {c \in {Slice(buf, i + 1, n) : n \in 0..(Len(buf) - i - 2)} :
     StartsWith(buf, i, Phrase(q, c)) /\ IsContent(q, c)}

\* The tokenizer stands directly behind the text of the Key token it has
\* just emitted: no ':' has been consumed since.
DirectlyAfterKey ==
  /\ state = "pair"
  /\ tokens # <<>>
  /\ LastToken.type = TOKEN_KEY
  /\ index >= Len(LastToken.value)
  /\ Slice(input, index - Len(LastToken.value), Len(LastToken.value))
       = LastToken.value

\* C6 - Quote stripping: where a complete quoted phrase starts at the scan
\* position, the step emits one token whose text is exactly the content
\* between the delimiters, a Fulltext in Scanning state and a Value in Pairing
\* state; an input that is one phrase returns the content as the only
\* fulltext value, and k:phrase, k tokenized as the Key, returns it under k.
C6_Step ==
  \A q \in Quotes :
    /\ \A c \in PhrasesAt(q, input, index) :
         pc = "lex" =>
           /\ tokens' = Append(tokens,
                [type |-> IF state = "init" THEN TOKEN_FULLTEXT ELSE TOKEN_VALUE,
                 value |-> c,
                 text |-> Phrase(q, c)])
           /\ index' = index + Len(c) + 2
    /\ \A c \in PhrasesAt(q, input, 0) :
         input = Phrase(q, c) =>
           /\ pc' # "error"
           /\ pc' = "done" =>
                result' = Some(<< Literal(Fulltext, Undefined, << c >>) >>)
    /\ \A k \in Configured :
         \A c \in PhrasesAt(q, input, Len(k) + 1) :
           (/\ input = k \o <<":">> \o Phrase(q, c)
            /\ FirstTokenIsKey(k))
             => /\ pc' # "error"
                /\ pc' = "done" =>
                     result' = Some(<< Literal(k, Undefined, << c >>) >>)

C6_QuoteStripping == [][C6_Step]_vars

\* A single-quoted phrase in Scanning state and a double-quoted one in
\* Pairing state, each with a blank and a ';' inside.
C6_Witness ==
  /\ input = <<"'", "a", " ", ";", "'", " ", "k", ":", "\"", "a", " ", ";", "\"">>
  /\ Returns(<< Literal(Fulltext, Undefined, << <<"a", " ", ";">> >>),
                Literal(<<"k">>, Undefined, << <<"a", " ", ";">> >>) >>)

\* C7 - Grammar violation after a key is fatal: when the character directly
\* after a Key token is neither ':' nor the start of a complete quoted
\* phrase, the next step is the failure of the call, and a failed call has
\* returned no formula, whatever had been appended before.
C7_Step ==
  (/\ pc = "lex"
   /\ DirectlyAfterKey
   /\ index < Len(input)
   /\ input[index + 1] # ":"
   /\ \A q \in Quotes : PhrasesAt(q, input, index) = {})
    => pc' = "error" /\ result' = Undefined

C7_FatalAfterKey == [][C7_Step]_vars /\ [](pc = "error" => result = Undefined)

\* The call has failed at the blank after a key, a fulltext term appended.
C7_Witness ==
  /\ pc = "error"
  /\ DirectlyAfterKey
  /\ input[index + 1] = " "
  /\ literals # <<>>
  /\ result = Undefined

\* C8 - No whitespace skipping in Pairing state: for a configured key k and a
\* bare word w, k:, a space or tab, w does not return a result, and no Value
\* token of the bare-word rule has a text that begins with whitespace.
C8_NoWhitespaceSkipping ==
  /\ \A k \in Configured :
       (/\ StartsWith(input, 0, k \o <<":">>)
        /\ Len(input) > Len(k) + 1
        /\ input[Len(k) + 2] \in {" ", "\t"}
        /\ IsBareWord(Rest(input, Len(k) + 2)))
         => pc # "done"
  /\ \A n \in 1..Len(tokens) :
       (tokens[n].type = TOKEN_VALUE /\ IsBareWordToken(n))
         => tokens[n].value[1] \notin {" ", "\t"}

\* The quote at offset i of buf has no closing quote before the end of buf.
Unclosed(buf, i) ==
  /\ i < Len(buf)
  /\ buf[i + 1] \in Quotes
  /\ \A j \in (i + 2)..Len(buf) : buf[j] # buf[i + 1]

IsWord(w) == w # <<>> /\ \A n \in 1..Len(w) : w[n] \in WordChars

\* C9 as amended - an opening quote without a closing quote is a grammar
\* violation only directly after a Key token: in Scanning state, and in
\* Pairing state after ':', the step at the quote consumes it and the scan
\* goes on; an unclosed quote before a word, and k: with an unclosed quoted
\* word (k tokenized as the Key), do not fail.
C9_Step ==
  /\ (pc = "lex" /\ Unclosed(input, index) /\ ~DirectlyAfterKey)
       => pc' = "lex" /\ index' > index
  /\ (Unclosed(input, 0) /\ IsWord(Rest(input, 1))) => pc' # "error"
  /\ \A k \in Configured :
       (/\ StartsWith(input, 0, k \o <<":">>)
        /\ Unclosed(input, Len(k) + 1)
        /\ IsWord(Rest(input, Len(k) + 2))
        /\ FirstTokenIsKey(k))
         => pc' # "error"

C10_ScanningNeverAborts ==
  (\A k \in Recognized : \A i \in 0..Len(input) : ~StartsWith(input, i, k))
    => pc # "error"

\* C11 - Reserved key 'fulltext': whatever keywords the caller supplies,
\* 'fulltext' is tokenized as a Key, and fulltext:w for a bare word w puts w
\* under key 'fulltext' without operator, in the Literal of the bare words.
C11_ReservedFulltext ==
  /\ (StartsWith(input, 0, Fulltext \o <<":">>)
        /\ IsBareWord(Rest(input, Len(Fulltext) + 1)))
       => /\ tokens # <<>> => FirstTokenIsKey(Fulltext)
          /\ Yields(<< Literal(Fulltext, Undefined,
                               << Rest(input, Len(Fulltext) + 1) >>) >>)
  /\ (StartsWith(input, 0, <<"a", " ">> \o Fulltext \o <<":">>)
        /\ IsBareWord(Rest(input, Len(Fulltext) + 3)))
       => Yields(<< Literal(Fulltext, Undefined,
                            << <<"a">>, Rest(input, Len(Fulltext) + 3) >>) >>)

\* The lists the caller can have supplied, given the list as it is now: the
\* list itself, or the list without the 'fulltext' a call has appended.
Supplied ==
  {keywords} \cup
    (IF keywords # <<>> /\ keywords[Len(keywords)] = Fulltext
     THEN {SubSeq(keywords, 1, Len(keywords) - 1)} ELSE {})

\* C12 - Independence of parse calls: a call starts with a fresh tokenizer
\* state, fresh pending slots and an empty formula; a step changes the
\* caller's keyword list at most by appending 'fulltext' when it is not in
\* it, so it is never in it twice; what earlier calls returned stays as it
\* was; and a call ends as the same input and keywords parsed alone do.
C12_Fresh ==
  (pc = "lex" /\ matches = <<>>)
    => /\ index = 0 /\ state = "init" /\ stack = <<>>
       /\ lastOp = Undefined /\ lastKey = Undefined
       /\ literals = <<>> /\ tokens = <<>>

C12_Outcome ==
  pc \in {"done", "error"}
    => \A kw \in Supplied : Alone(kw, input) = [pc |-> pc, result |-> result]

C12_Step ==
  /\ \/ keywords' = keywords
     \/ keywords' = Append(keywords, Fulltext) /\ Fulltext \notin Configured
  /\ Len(returned') >= Len(returned)
  /\ SubSeq(returned', 1, Len(returned)) = returned

C12_Independence ==
  /\ [](C12_Fresh /\ C12_Outcome)
  /\ [](Cardinality({n \in 1..Len(keywords) : keywords[n] = Fulltext}) <= 1)
  /\ [][C12_Step]_vars

\* After '-k', which ended with the operator and the key pending, the second
\* call returns 'a k:a' as {fulltext, [a]}, {k, no operator, [a]}.
C12_Witness ==
  /\ Len(returned) = 1
  /\ returned[1].input = <<"-", "k">>
  /\ returned[1].pc = "done"
  /\ keywords = << <<"k">>, Fulltext >>
  /\ input = <<"a", " ", "k", ":", "a">>
  /\ Returns(<< Literal(Fulltext, Undefined, << <<"a">> >>),
                Literal(<<"k">>, Undefined, << <<"a">> >>) >>)

\* C13 - Key as a whole token: a Key token is never directly followed by a
\* further word character, i.e. a longer word that begins with a key name
\* gives no Key token for that name.
C13_KeyIsWholeToken ==
  (DirectlyAfterKey /\ index < Len(input)) => input[index + 1] \notin WordChars

\* The step emits a token of the given type.
Emits(type) == tokens' # tokens /\ tokens'[Len(tokens')].type = type

\* Literal n of the formula after the step is new or has changed in the step.
Grew(n) == n > Len(literals) \/ literals'[n] # literals[n]

\* The Key token emitted last came directly after an Operator token.
KeyAfterOp ==
  /\ Len(tokens) >= 2
  /\ LastToken.type = TOKEN_KEY
  /\ tokens[Len(tokens) - 1].type = TOKEN_OP

\* C14 - Operator placement: after an Operator token the next step emits a
\* Key token; a Key token follows an Operator token exactly when '-' is the
\* character before it in the input; the operator is pending only from the
\* Operator token to the Value of that key; a Value is recorded with '-'
\* exactly when its Key came after an Operator token, a Fulltext always
\* without operator.  '-k:a k:k' gives {k, '-', [a]} and {k, no operator, [k]}.
C14_Pending ==
  /\ lastOp \in {Undefined, Some(<<"-">>)}
  /\ lastOp # Undefined
       <=> (tokens # <<>> /\ (LastToken.type = TOKEN_OP \/ KeyAfterOp))
  /\ (tokens # <<>> /\ LastToken.type = TOKEN_OP) => pc = "lex"
  /\ (input = <<"-", "k", ":", "a", " ", "k", ":", "k">> /\ pc # "start"
        /\ keywords[1] = <<"k">>)
       => Yields(<< Literal(<<"k">>, Some(<<"-">>), << <<"a">> >>),
                    Literal(<<"k">>, Undefined, << <<"k">> >>) >>)

C14_Step ==
  /\ (tokens # <<>> /\ LastToken.type = TOKEN_OP) => Emits(TOKEN_KEY)
  /\ Emits(TOKEN_KEY)
       => ((index > 0 /\ input[index] = "-")
             <=> (tokens # <<>> /\ LastToken.type = TOKEN_OP))
  /\ Emits(TOKEN_VALUE)
       => \A n \in 1..Len(literals') :
            Grew(n) => literals'[n].op
                         = IF KeyAfterOp THEN Some(<<"-">>) ELSE Undefined
  /\ Emits(TOKEN_FULLTEXT)
       => \A n \in 1..Len(literals') : Grew(n) => literals'[n].op = Undefined

C14_OperatorPlacement == [](C14_Pending) /\ [][C14_Step]_vars

C14_Witness ==
  /\ input = <<"-", "k", ":", "a", " ", "k", ":", "k">>
  /\ Len(tokens) = 5
  /\ tokens[1].type = TOKEN_OP
  /\ lastOp = Undefined
  /\ Returns(<< Literal(<<"k">>, Some(<<"-">>), << <<"a">> >>),
                Literal(<<"k">>, Undefined, << <<"k">> >>) >>)

\* C15 - Value only after Key: a Value token is emitted only in Pairing
\* state, where the pending key is the text of the Key token emitted last;
\* the token before a Value token is always that Key token, and the value
\* goes to a Literal of that key.
C15_PairHasKey ==
  /\ state = "pair"
       => /\ tokens # <<>>
          /\ LastToken.type = TOKEN_KEY
          /\ lastKey = Some(LastToken.value)
  /\ \A n \in 1..Len(tokens) :
       tokens[n].type = TOKEN_VALUE => (n > 1 /\ tokens[n - 1].type = TOKEN_KEY)

C15_Step ==
  Emits(TOKEN_VALUE)
    => /\ state = "pair"
       /\ lastKey # Undefined
       /\ lastKey = Some(LastToken.value)
       /\ \A n \in 1..Len(literals') : Grew(n) => literals'[n].key = lastKey
       /\ \E n \in 1..Len(literals') : Grew(n)

C15_ValueOnlyAfterKey == [](C15_PairHasKey) /\ [][C15_Step]_vars

\* The Value of 'k:a' has been consumed with the pending key 'k'.
C15_Witness ==
  /\ Len(tokens) = 2
  /\ input = <<"k", ":", "a">>
  /\ keywords[1] = <<"k">>
  /\ state = "init"
  /\ tokens[1].type = TOKEN_KEY
  /\ tokens[2].type = TOKEN_VALUE
  /\ literals = << Literal(<<"k">>, Undefined, << <<"a">> >>) >>

\* C16 - Bare-word boundaries: the text of a Fulltext or Value token of the
\* bare-word rule has no separator character at any position.
C16_BareWordBoundaries ==
  \A n \in 1..Len(tokens) :
    IsBareWordToken(n)
      => \A m \in 1..Len(tokens[n].value) : tokens[n].value[m] \notin Separators

\* C17 - Progress and termination: every tokenizer step matches a non-empty
\* text that starts where the match before ended, so the scan position
\* strictly increases and the matches, in order, are the input up to the scan
\* position; there are at most length(input) steps, every call ends by
\* returning or by failing, and when it returns the matches are the whole
\* input.
C17_Consumed ==
  /\ index \in 0..Len(input)
  /\ Len(matches) <= index
  /\ \A n \in 1..Len(matches) : matches[n] # <<>>
  /\ Flatten(matches) = SubSeq(input, 1, index)
  /\ pc = "done" => (index = Len(input) /\ Flatten(matches) = input)

C17_Step ==
  /\ (pc = "lex" /\ pc' = "lex")
       => /\ index' > index
          /\ matches' = Append(matches, SubSeq(input, index + 1, index'))
  /\ (pc = "lex" /\ pc' # "lex")
       => (pc' \in {"done", "error"} /\ index' = index /\ matches' = matches)

C17_Progress ==
  /\ [](C17_Consumed)
  /\ [][C17_Step]_vars
  /\ <>(pc \in {"done", "error"})

\* A call has returned after more than one step, one of which took more than
\* one character.
C17_Witness ==
  /\ pc = "done"
  /\ Len(input) = 4
  /\ Len(matches) = 3
  /\ Flatten(matches) = input

\* The number of Value and Fulltext tokens emitted.
ContentTokens ==
  Cardinality({n \in 1..Len(tokens) :
                 tokens[n].type \in {TOKEN_VALUE, TOKEN_FULLTEXT}})

\* C18 - Dangling key at end of input: when the input ends in Pairing state
\* the call returns the formula as it is; a step that ends in Pairing state
\* (the Key, ':' or the return) changes no Literal, so the Literals are those
\* of the Value and Fulltext tokens before the key.  For 'k', 'k:' and '-k'
\* the result is empty, for 'a -k' it is the fulltext Literal of a.
C18_PendingAddsNothing ==
  /\ Values(literals) = ContentTokens
  /\ (pc = "done" /\ state = "pair")
       => /\ lastKey # Undefined
          /\ LastToken.type = TOKEN_KEY
          /\ result = Some(literals)
  /\ (pc # "start" /\ keywords[1] = <<"k">>
        /\ input \in { <<"k">>, <<"k", ":">>, <<"-", "k">> })
       => Yields(<<>>)
  /\ (pc # "start" /\ keywords[1] = <<"k">> /\ input = <<"a", " ", "-", "k">>)
       => Yields(<< Literal(Fulltext, Undefined, << <<"a">> >>) >>)

C18_Step ==
  /\ (pc = "lex" /\ state = "pair" /\ index = Len(input))
       => (pc' = "done" /\ result' = Some(literals))
  /\ state' = "pair" => literals' = literals

C18_DanglingKey == [](C18_PendingAddsNothing) /\ [][C18_Step]_vars

\* 'a -k' has returned with '-' and k pending.
C18_Witness ==
  /\ pc = "done"
  /\ state = "pair"
  /\ lastOp = Some(<<"-">>)
  /\ lastKey = Some(<<"k">>)
  /\ result = Some(<< Literal(Fulltext, Undefined, << <<"a">> >>) >>)

WellFormed(lits) ==
  \A n \in 1..Len(lits) :
    /\ lits[n].values # <<>>
    /\ lits[n].key \in {Some(k) : k \in Recognized}
    /\ lits[n].op \in {Undefined, Some(<<"-">>)}

\* C19 - Well-formed Literals: every Literal of the formula and of a returned
\* result has at least one value, a key that is 'fulltext' or a configured
\* name, and no operator or '-'; a step that emits a Fulltext token neither
\* creates nor changes a Literal with operator '-' (the Literal of '-' and
\* 'fulltext' that '-fulltext:a' creates holds Value tokens only).
C19_Literals ==
  /\ WellFormed(literals)
  /\ \A lits \in result : WellFormed(lits)

C19_Step ==
  Emits(TOKEN_FULLTEXT)
    => \A n \in 1..Len(literals') :
         literals'[n].op = Some(<<"-">>)
           => (n <= Len(literals) /\ literals'[n] = literals[n])

C19_WellFormedLiterals == [](C19_Literals) /\ [][C19_Step]_vars

\* '-fulltext:a a' has returned the negated Literal of 'fulltext' with the
\* Value and the plain one with the Fulltext token.
C19_Witness ==
  /\ pc = "done"
  /\ Len(tokens) = 4
  /\ tokens[3].type = TOKEN_VALUE
  /\ tokens[4].type = TOKEN_FULLTEXT
  /\ result = Some(<< Literal(Fulltext, Some(<<"-">>), << <<"a">> >>),
                      Literal(Fulltext, Undefined, << <<"a">> >>) >>)

====
